---------------------------- MODULE Spec2Model ----------------------------
(***************************************************************************)
(* Ohio Rate Watch: the daily-check pipeline (scripts/daily-check.js), the *)
(* change detector (scraper/energy-choice-scraper.js) and the two store    *)
(* writers of lib/history-store.js, as a state machine; with them the     *)
(* handlers of server.js that share their stores: the signup rate limiter, *)
(* POST /api/subscribe, GET /confirm and POST /api/cron/daily-check.       *)
(*                                                                         *)
(* Units.  Prices are integers in mills (1/1000 of a dollar), so the      *)
(* source's 0.01 is 10 and its 0.1 is 100.  Percentages produced by        *)
(* toFixed(2) are integers in hundredths of a percent (5% is 500).  Time   *)
(* is counted in whole days; one run takes place within one day; the       *)
(* clock of the rate limiter ticks every 20 minutes.  The                  *)
(* 7-day median of PERCENTILE_CONT is kept doubled (an integer), because   *)
(* the continuous percentile of integers is a multiple of one half.        *)
(* JavaScript doubles are modelled by exact rational arithmetic.           *)
(***************************************************************************)
EXTENDS Integers, Sequences, FiniteSets, TLC

\* ------------------------------------------------------------------ bounds
MaxRuns   == 3      \* runs of main() in one behaviour of the longest profile
MaxFaults == 1      \* failures of collaborators (database, mail, fetch) injected in one behaviour
FillerN   == 27     \* variable-rate offers that fill a full page
MaxCalls  == 7      \* POST /api/subscribe requests in one behaviour of the limiter profile
MaxClock  == 4      \* the latest reading of the server clock, in ticks of 20 minutes
MaxConfirms == 2    \* GET /confirm requests in one behaviour
MaxCron   == 2      \* POST /api/cron/daily-check requests in one behaviour

\* ------------------------------------------------------- program constants
Null == 0 - 1000000                 \* JavaScript null / SQL NULL in a numeric column
FallbackFloor   == 30               \* minAcceptable when no median is known
MaxRecorded     == 20               \* cap on the changes kept by main
CooldownDays    == 7
MedianWindow    == 7
DefaultMinSavings == 15
PriceFloor      == 100              \* price > 0.1
AbsThreshold    == 10               \* absDiff >= 0.01
PctThreshold    == 500              \* pctDiff >= 5
RateDiffPct     == 3                \* rateDiff <= 0.03
McfTerritory == 1                   \* the territory whose prices are quoted per Mcf
CcfPerMcf == 10                     \* 1 Mcf = 10 ccf
SignupWindow == 3                   \* window = 60 * 60 * 1000 ms, in ticks of 20 minutes
MaxSignups == 5                     \* max = 5
Infinity == 1000000000              \* the double Infinity (a division by a price of 0)

\* TERRITORY_CONFIG, in the insertion order Object.entries walks it
TERRITORY_CONFIG ==
  << [key |-> "columbia",    id |-> 8],
     [key |-> "enbridge",    id |-> 1],
     [key |-> "centerpoint", id |-> 11],
     [key |-> "duke",        id |-> 10] >>

\* ------------------------------------------------------------ small helpers
Truthy(x) == x # Null /\ x # 0          \* JavaScript truthiness of a number-or-null
Abs(x) == IF x < 0 THEN 0 - x ELSE x

RECURSIVE SumSeq(_)
SumSeq(s) == IF s = << >> THEN 0 ELSE Head(s) + SumSeq(Tail(s))

RECURSIVE InsertAsc(_, _)
InsertAsc(x, s) ==
  IF s = << >> THEN << x >>
  ELSE IF x < Head(s) THEN << x >> \o s
  ELSE << Head(s) >> \o InsertAsc(x, Tail(s))

RECURSIVE SortAsc(_)
SortAsc(s) == IF s = << >> THEN << >> ELSE InsertAsc(Head(s), SortAsc(Tail(s)))

\* Math.round: to the nearest integer, halves towards +infinity; num/den with den > 0
RoundDiv(num, den) == (2 * num + den) \div (2 * den)

\* Number.prototype.toFixed(2) of num/den * 100, in hundredths of a percent:
\* to the nearest hundredth, halves away from zero
PctFixed2(num, den) ==
  IF num >= 0 THEN (2 * 10000 * num + den) \div (2 * den)
  ELSE 0 - ((2 * 10000 * (0 - num) + den) \div (2 * den))

\* --------------------------------------------------- scraper output (input)
\* One supplier object as fetchRatePage builds it.  name and offerId are
\* opaque identifiers; offerDetails is "NULL" (no text), "plain" or "bundle"
\* (a text matching %bundle%).
Offer(name, price, rateType, termMonths, introPrice, offerDetails) ==
  [name |-> name, price |-> price, rateType |-> rateType, termMonths |-> termMonths,
   introPrice |-> introPrice, offerDetails |-> offerDetails, offerId |-> Null]

\* One rate page as fetchRatePage returns it.
Page(territoryId, rateCode, defaultRate, suppliers) ==
  [category |-> "NaturalGas", territoryId |-> territoryId, rateCode |-> rateCode,
   defaultRate |-> defaultRate, suppliers |-> suppliers]

Filler(price) == [i \in 1..FillerN |-> Offer(100 + i, price, "variable", Null, FALSE, "plain")]

\* head offers of the Columbia residential page: supplier 1 is the cheapest
\* qualifying fixed offer, 2 is a dearer fixed offer, 3 an introductory one,
\* 4 a bundle-only one
HeadOffers(p1, p2) ==
  << Offer(1, p1, "fixed", 12, FALSE, "plain"),
     Offer(2, p2, "fixed", 24, FALSE, "plain"),
     Offer(3, 500, "fixed", 12, TRUE, "plain"),
     Offer(4, 450, "fixed", 12, FALSE, "bundle") >>

FullBatch(d, p1, p2, f) == << Page(8, 1, d, HeadOffers(p1, p2) \o Filler(f)) >>

\* a batch in which supplier 2 has left and supplier 5 has arrived
SwapBatch(d, p1, f) ==
  << Page(8, 1, d, << Offer(1, p1, "fixed", 12, FALSE, "plain"),
                      Offer(5, 990, "fixed", 24, FALSE, "plain"),
                      Offer(3, 500, "fixed", 12, TRUE, "plain"),
                      Offer(4, 450, "fixed", 12, FALSE, "bundle") >> \o Filler(f)) >>

SmallBatch(n) == << Page(8, 1, 1071, SubSeq(HeadOffers(860, 1001) \o Filler(2000), 1, n)) >>

\* The batches scrapeAllRates may return in the model.  A batch is immutable,
\* so the state holds its key and BatchOf gives its content (the JSON of the
\* files, the argument of the store writers).
RefBatch   == FullBatch(1071, 860, 1001, 2000)   \* the reference day
QuietBatch == FullBatch(1071, 850, 1001, 2000)   \* supplier 1 moves by 1.2%: not significant
MovedBatch == SwapBatch(1000, 855, 2200)         \* default rate and every filler offer move,
                                                 \* supplier 2 leaves, supplier 5 arrives
EdgeBatch  == FullBatch(1071, 860, 1051, 2000)   \* supplier 2 moves by 4.995%
Small9     == SmallBatch(9)
Small5     == SmallBatch(5)

\* two territories: supplier 1 of Columbia moves by 7%, and the CenterPoint
\* page carries one qualifying fixed offer
TwoBatch ==
  FullBatch(1071, 800, 1001, 2000)
    \o << Page(11, 1, 1071, << Offer(9, 800, "fixed", 12, FALSE, "plain") >>) >>

\* the reference day plus the Enbridge page (territory 1), whose prices the
\* portal quotes per Mcf: the offer at 8.000 per Mcf is 0.800 per ccf
McfBatch ==
  RefBatch \o << Page(McfTerritory, 1, 1071, << Offer(9, 8000, "fixed", 12, FALSE, "plain") >>) >>

\* a Columbia page with the offers the portal may also list: supplier 1 with a
\* second term, supplier 2 priced 0.00, supplier 6 cheapest but without
\* description text
OddBatch ==
  << Page(8, 1, 1071, << Offer(1, 860, "fixed", 12, FALSE, "plain"),
                         Offer(1, 990, "fixed", 24, FALSE, "plain"),
                         Offer(2, 0, "fixed", 24, FALSE, "plain"),
                         Offer(6, 700, "fixed", 12, FALSE, "NULL"),
                         Offer(3, 500, "fixed", 12, TRUE, "plain"),
                         Offer(4, 450, "fixed", 12, FALSE, "bundle") >> \o Filler(2000)) >>

\* the reference day plus an Enbridge page whose rows parsed without any price
GarbageBatch ==
  RefBatch \o << Page(1, 1, 1071, << Offer(7, Null, "fixed", 12, FALSE, "plain"),
                                     Offer(8, Null, "variable", Null, FALSE, "plain") >>) >>

\* scrapeAllRates aborting on the first page that fails: nothing is returned
scrapeAbortsOnFailure(pages, failed) == IF failed = {} THEN pages ELSE << >>

\* scrapeAllRates, lines 164-176: the pages are fetched in job order; a page
\* whose fetch throws is logged and left out, the loop goes on
scrapeAllRates(pages, failed) ==
  LET kept == { i \in 1..Len(pages) : i \notin failed }
      RECURSIVE Collect(_)
      Collect(i) == IF i > Len(pages) THEN << >>
                    ELSE (IF i \in kept THEN << pages[i] >> ELSE << >>) \o Collect(i + 1)
  IN Collect(1)

\* what the portal served and which page fetches failed, by batch key
PagesServed(k) == IF k \in {"twolost", "lostall"} THEN TwoBatch ELSE << >>
PagesFailed(k) == IF k = "twolost" THEN {2} ELSE IF k = "lostall" THEN {1, 2} ELSE {}

BatchOf(k) ==
  CASE k = "ref"    -> RefBatch
    [] k = "quiet"  -> QuietBatch
    [] k = "moved"  -> MovedBatch
    [] k = "edge"   -> EdgeBatch
    [] k = "small9" -> Small9
    [] k = "small5" -> Small5
    [] k = "two"    -> TwoBatch
    [] k = "odd"    -> OddBatch
    [] k = "garbage" -> GarbageBatch
    [] k = "mcf"    -> McfBatch
    [] k \in {"twolost", "lostall"} -> scrapeAllRates(PagesServed(k), PagesFailed(k))

\* An operating profile restricts what the environment does in one behaviour:
\* how many runs, how many collaborator failures, which batches the portal
\* serves, which command lines << --dry-run, --force-alert >> are used and how
\* many days lie between two runs; and what reaches the web server: the caller
\* addresses, the e-mail addresses of the signup bodies (0: a body without a
\* valid address), how many signups and confirmations, how far the clock runs,
\* how many times the cron endpoint is called.
Profiles ==
  { [name |-> "ledger", runs |-> MaxRuns - 1, faults |-> MaxFaults,
     batches |-> {"ref", "moved", "small9", "small5"},
     flags |-> { << FALSE, FALSE >> }, steps |-> {3},
     ips |-> {}, emails |-> {}, calls |-> 0, confirms |-> 0, ticks |-> 0, crons |-> 0],
    [name |-> "diff", runs |-> MaxRuns, faults |-> 0,
     batches |-> {"ref", "quiet", "moved", "edge"},
     flags |-> { << FALSE, FALSE >> }, steps |-> {1},
     ips |-> {}, emails |-> {}, calls |-> 0, confirms |-> 0, ticks |-> 0, crons |-> 0],
    [name |-> "alerts", runs |-> MaxRuns - 1, faults |-> MaxFaults,
     batches |-> {"ref", "two"},
     flags |-> { << FALSE, TRUE >> }, steps |-> {3, 8},
     ips |-> {}, emails |-> {}, calls |-> 0, confirms |-> 0, ticks |-> 0, crons |-> 0],
    [name |-> "catalog", runs |-> MaxRuns - 1, faults |-> 0,
     batches |-> {"ref", "odd", "garbage", "twolost", "lostall", "mcf"},
     flags |-> { << FALSE, TRUE >> }, steps |-> {1},
     ips |-> {}, emails |-> {}, calls |-> 0, confirms |-> 0, ticks |-> 0, crons |-> 0],
    [name |-> "flags", runs |-> MaxRuns - 1, faults |-> MaxFaults,
     batches |-> {"ref", "moved"},
     flags |-> { << FALSE, FALSE >>, << FALSE, TRUE >>, << TRUE, TRUE >> }, steps |-> {3},
     ips |-> {}, emails |-> {}, calls |-> 0, confirms |-> 0, ticks |-> 0, crons |-> 0],
    [name |-> "limiter", runs |-> 0, faults |-> 0,
     batches |-> {}, flags |-> {}, steps |-> {},
     ips |-> {1, 2}, emails |-> {0}, calls |-> MaxCalls, confirms |-> 0, ticks |-> MaxClock,
     crons |-> 0],
    [name |-> "signup", runs |-> 1, faults |-> 0,
     batches |-> {"ref"}, flags |-> { << FALSE, TRUE >> }, steps |-> {1},
     ips |-> {1}, emails |-> {1, 3, 5}, calls |-> MaxConfirms + 1, confirms |-> MaxConfirms,
     ticks |-> 0, crons |-> 0],
    [name |-> "cron", runs |-> 0, faults |-> 0,
     batches |-> {"ref", "moved", "small5"}, flags |-> {}, steps |-> {},
     ips |-> {}, emails |-> {}, calls |-> 0, confirms |-> 0, ticks |-> 0, crons |-> MaxCron] }

\* -------------------------------------------------------- pure computations
\* main, line 619: current.reduce((sum, page) => sum + (page.suppliers?.length || 0), 0)
TotalOffers(current) == SumSeq([i \in 1..Len(current) |-> Len(current[i].suppliers)])

\* getSevenDayMedian: PERCENTILE_CONT(0.5) over row_count of the runs with
\* status 'success' started in the last 7 days; the result doubled, or Null
\* ("rows[0]?.median || null": no row, or a median of 0).
RECURSIVE FinishedCounts(_, _, _)
\* the offer counts of every finished run of the window, whatever its status
FinishedCounts(runs, i, today) ==
  IF i > Len(runs) THEN << >>
  ELSE (IF runs[i].status # "running" /\ runs[i].started_at > today - MedianWindow
        THEN << runs[i].row_count >> ELSE << >>) \o FinishedCounts(runs, i + 1, today)

RECURSIVE SuccessCounts(_, _, _)
SuccessCounts(runs, i, today) ==
  IF i > Len(runs) THEN << >>
  ELSE (IF runs[i].status = "success" /\ runs[i].started_at > today - MedianWindow
        THEN << runs[i].row_count >> ELSE << >>) \o SuccessCounts(runs, i + 1, today)

getSevenDayMedian(runs, today) ==
  LET c == SortAsc(SuccessCounts(runs, 1, today))
      n == Len(c)
      m2 == IF n = 0 THEN 0
            ELSE IF n % 2 = 1 THEN 2 * c[(n + 1) \div 2]
            ELSE c[n \div 2] + c[n \div 2 + 1]
  IN IF m2 = 0 THEN Null ELSE m2

\* main, line 624: median ? Math.floor(median * 0.3) : 30   (median2 is the doubled median)
MinAcceptable(median2) ==
  IF median2 # Null THEN (3 * median2) \div 20 ELSE FallbackFloor

\* main, line 625: the batch passes unless totalOffers < minAcceptable
GateAccepts(totalOffers, median2) == ~ (totalOffers < MinAcceptable(median2))

\* ---- detectChanges (scraper/energy-choice-scraper.js)
RECURSIVE FindPage(_, _, _)
\* previous.find(p => same category, territoryId, rateCode): index or 0
FindPage(previous, curr, i) ==
  IF i > Len(previous) THEN 0
  ELSE IF previous[i].category = curr.category /\ previous[i].territoryId = curr.territoryId
          /\ previous[i].rateCode = curr.rateCode THEN i
  ELSE FindPage(previous, curr, i + 1)

RECURSIVE FindSupplier(_, _, _)
\* prev.suppliers.find(s => s.name === currSupplier.name): index or 0
FindSupplier(suppliers, currSupplier, i) ==
  IF i > Len(suppliers) THEN 0
  ELSE IF suppliers[i].name = currSupplier.name THEN i
  ELSE FindSupplier(suppliers, currSupplier, i + 1)

\* changePct: a prior price of 0 divides by zero, which gives +/-Infinity in
\* JavaScript (the two prices differ, so never NaN); toFixed(2) and parseFloat keep it
Change(type, territoryId, supplier, prevRate, currRate) ==
  [type |-> type, territoryId |-> territoryId, supplier |-> supplier,
   prevRate |-> prevRate, currRate |-> currRate,
   changePct |-> IF prevRate = 0 THEN (IF currRate > 0 THEN Infinity ELSE 0 - Infinity)
                 ELSE IF prevRate > 0 THEN PctFixed2(currRate - prevRate, prevRate)
                 ELSE 0 - PctFixed2(currRate - prevRate, 0 - prevRate)]

DefaultRateChange(prev, curr) ==
  IF prev.defaultRate # Null /\ curr.defaultRate # Null /\ prev.defaultRate # curr.defaultRate
  THEN << Change("default_rate", curr.territoryId, Null, prev.defaultRate, curr.defaultRate) >>
  ELSE << >>

RECURSIVE SupplierChanges(_, _, _)
SupplierChanges(prev, curr, i) ==
  IF i > Len(curr.suppliers) THEN << >>
  ELSE LET cs == curr.suppliers[i]
           j  == FindSupplier(prev.suppliers, cs, 1)
       IN (IF j = 0 \/ prev.suppliers[j].price = Null \/ cs.price = Null
              \/ prev.suppliers[j].price = cs.price
           THEN << >>
           ELSE << Change("supplier_rate", curr.territoryId, cs.name,
                          prev.suppliers[j].price, cs.price) >>)
          \o SupplierChanges(prev, curr, i + 1)

RECURSIVE DetectFrom(_, _, _)
DetectFrom(previous, current, i) ==
  IF i > Len(current) THEN << >>
  ELSE LET curr == current[i]
           k    == FindPage(previous, curr, 1)
       IN (IF k = 0 THEN << >>
           ELSE DefaultRateChange(previous[k], curr) \o SupplierChanges(previous[k], curr, 1))
          \o DetectFrom(previous, current, i + 1)

detectChanges(previous, current) == DetectFrom(previous, current, 1)

\* main, lines 666-671: the noise filter
IsSignificant(c) ==
  \/ c.type = "default_rate"
  \/ (Abs(c.changePct) >= PctThreshold /\ Abs(c.currRate - c.prevRate) >= AbsThreshold)

FilterSignificant(allChanges) == SelectSeq(allChanges, IsSignificant)

\* main, line 674: changes.sort by |changePct| descending (Array.prototype.sort is stable)
RECURSIVE InsertByPct(_, _)
InsertByPct(c, s) ==
  IF s = << >> THEN << c >>
  ELSE IF Abs(c.changePct) >= Abs(Head(s).changePct) THEN << c >> \o s
  ELSE << Head(s) >> \o InsertByPct(c, Tail(s))

RECURSIVE SortByPct(_)
SortByPct(s) == IF s = << >> THEN << >> ELSE InsertByPct(Head(s), SortByPct(Tail(s)))

\* main without the cap: every significant change is kept
KeepAllChanges(changes) == changes

\* main, lines 673-676: keep the 20 largest
CapChanges(changes) ==
  IF Len(changes) > MaxRecorded THEN SubSeq(changes, 1, MaxRecorded) ELSE changes

SignificantChanges(previous, current) ==
  CapChanges(SortByPct(FilterSignificant(detectChanges(previous, current))))


\* ------------------------------------------------------------------- state
VARIABLES
  day,             \* today's date, in days
  nruns,           \* runs of main started so far
  faults,          \* collaborator failures injected so far
  scrape_runs,     \* table scrape_runs: the run ledger, row id = index
  rate_snapshots,  \* table rate_snapshots, as the sequence of its committed inserts
  supplier_offers, \* table supplier_offers, likewise (the rows: SupplierOfferRows)
  rate_events,     \* table rate_events
  latestFile,      \* data/rates-latest.json: << >> when absent, << batch key >> otherwise
  baselineFile,    \* data/rates-baseline.json, likewise
  subscribers,     \* table subscribers, row id = index
  alertLog,        \* history: the alerts that reached sendEmail; the delivered ones are
                   \* the e-mails the mail service accepted
  discord,         \* calls of sendDiscordAlert
  p,               \* the daily-check process: program counter and locals of main
  profile,         \* the operating profile of this behaviour
  stored,          \* history: ledger ids of the runs whose two store writes both committed
  lastAccepted,    \* history: << >> or << the batch of the latest run that passed the gate >>
  pre,             \* history: the stores and the ledger as they were when the current run started
  ipSignupLog,     \* server.js: Map ip -> the timestamps kept for the ip (absent = empty)
  now,             \* Date.now() of the server, in ticks of 20 minutes
  ncalls,          \* calls of isRateLimited so far
  admitted,        \* history: per ip, the times of the calls that returned false
  lastCall,        \* history: << >> or << the latest call of isRateLimited >>
  ntokens,         \* confirmation tokens issued so far (crypto.randomUUID never repeats)
  nconfirms,       \* GET /confirm requests so far
  confirmations,   \* history: the tokens whose UPDATE of GET /confirm matched a row, with the rows
  cron             \* per request of POST /api/cron/daily-check: position and locals of its
                   \* background function

vars == << day, nruns, faults, scrape_runs, rate_snapshots, supplier_offers, rate_events,
           latestFile, baselineFile, subscribers, alertLog, discord, p, profile, stored,
           lastAccepted, pre, ipSignupLog, now, ncalls, admitted, lastCall,
           ntokens, nconfirms, confirmations, cron >>

\* the state of the web server, which main never touches
serverVars == << ipSignupLog, now, ncalls, admitted, lastCall, ntokens, nconfirms,
                confirmations, cron >>

\* the part of it that belongs to the signup handlers
signupVars == << ipSignupLog, now, ncalls, admitted, lastCall, ntokens, nconfirms,
                 confirmations >>

\* the state of the daily-check process and of the stores it alone writes
mainVars == << day, nruns, faults, scrape_runs, rate_snapshots, supplier_offers, rate_events,
               latestFile, baselineFile, alertLog, discord, p, profile, stored, lastAccepted,
               pre >>

\* the caller addresses of the signup requests
IPs == {1, 2}

Stores == [latestFile |-> latestFile, baselineFile |-> baselineFile,
           rate_snapshots |-> rate_snapshots, supplier_offers |-> supplier_offers,
           rate_events |-> rate_events, subscribers |-> subscribers]

Subscriber(email, territory, confirmed, current_rate, min_savings_pct, confirm_token) ==
  [email |-> email, territory |-> territory, confirmed |-> confirmed,
   current_rate |-> current_rate, min_savings_pct |-> min_savings_pct,
   confirm_token |-> confirm_token, last_alerted_at |-> Null, last_alerted_rate |-> Null]

\* the subscribers table at the start: one Columbia subscriber with a
\* self-reported rate, one without territory and without rate (falls back to
\* the SCO rate), one unconfirmed who holds confirmation token 1, one Enbridge
\* subscriber with a self-reported rate (per ccf, as the signup form asks for it)
InitSubscribers ==
  << Subscriber(1, "columbia", TRUE, 1000, 15, Null),
     Subscriber(2, "NULL", TRUE, Null, Null, Null),
     Subscriber(3, "columbia", FALSE, 2000, 15, 1),
     Subscriber(4, "enbridge", TRUE, 1000, 15, Null) >>

IdleProcess ==
  [pc |-> "idle", DRY_RUN |-> FALSE, FORCE_ALERT |-> FALSE, run |-> 0, runId |-> Null,
   current |-> "none", totalOffers |-> 0, median |-> Null, offerCount |-> 0,
   changes |-> << >>, tIdx |-> 0, sIdx |-> 0, bestPrice |-> Null,
   outcome |-> "none", exitCode |-> Null, writeFailed |-> FALSE,
   previous |-> << >>, priorAccepted |-> << >>]

IdleCron == [pc |-> "idle", current |-> "none", previous |-> << >>]

Init ==
  /\ day = 1
  /\ nruns = 0
  /\ faults = 0
  /\ scrape_runs = << >>
  /\ rate_snapshots = << >>
  /\ supplier_offers = << >>
  /\ rate_events = << >>
  /\ latestFile = << >>
  /\ baselineFile = << >>
  /\ subscribers = InitSubscribers
  /\ alertLog = << >>
  /\ discord = << >>
  /\ p = IdleProcess
  /\ profile \in Profiles
  /\ stored = {}
  /\ lastAccepted = << >>
  /\ pre = [stores |-> Stores, ledger |-> scrape_runs]
  /\ ipSignupLog = [ip \in IPs |-> << >>]
  /\ now = 0
  /\ ncalls = 0
  /\ admitted = [ip \in IPs |-> << >>]
  /\ lastCall = << >>
  /\ ntokens = 1
  /\ nconfirms = 0
  /\ confirmations = << >>
  /\ cron = [h \in 1..MaxCron |-> IdleCron]

\* outcomes a collaborator call may have: it may fail while the fault budget lasts
Outcomes == IF faults < profile.faults THEN {TRUE, FALSE} ELSE {TRUE}
OutcomesAfter(n) == IF faults + n < profile.faults THEN {TRUE, FALSE} ELSE {TRUE}
Charge(ok) == faults' = IF ok THEN faults ELSE faults + 1

\* ---------------------------------------------------------- ledger helpers
\* startScrapeRun: INSERT INTO scrape_runs (status) VALUES ('running') RETURNING id;
\* on a database error the run goes on with runId = null
startScrapeRun(runs, today) ==
  Append(runs, [status |-> "running", row_count |-> Null, error_message |-> "NULL",
                started_at |-> today, finished |-> FALSE])

\* finishScrapeRun with the status argument dropped: every run is closed as failed
finishScrapeRunAsFailed(runs, runId, status, rowCount, errorMessage, ok) ==
  IF runId = Null \/ ~ok THEN runs
  ELSE [runs EXCEPT ![runId] = [@ EXCEPT !.status = "failed", !.row_count = rowCount,
                                         !.error_message = errorMessage, !.finished = TRUE]]

\* finishScrapeRun: no-op without runId; the UPDATE may fail, which is logged and swallowed
finishScrapeRun(runs, runId, status, rowCount, errorMessage, ok) ==
  IF runId = Null \/ ~ok THEN runs
  ELSE [runs EXCEPT ![runId] = [@ EXCEPT !.status = status, !.row_count = rowCount,
                                         !.error_message = errorMessage, !.finished = TRUE]]

\* sendDiscordAlert is called with a diagnostic; whether a webhook is configured
\* and whether its POST succeeds is not observable by the run
sendDiscordAlert(log, run, kind) == Append(log, [run |-> run, kind |-> kind])

\* ------------------------------------------------------------ main, by step
\* lines 591-603: a run starts (the flags are the command line), the ledger row is created
MainStart ==
  /\ p.pc = "idle"
  /\ nruns < profile.runs
  /\ \E fl \in profile.flags, ok \in Outcomes :
       /\ Charge(ok)
       /\ scrape_runs' = IF ok THEN startScrapeRun(scrape_runs, day) ELSE scrape_runs
       /\ p' = [IdleProcess EXCEPT !.pc = "scrape", !.DRY_RUN = fl[1], !.FORCE_ALERT = fl[2],
                                   !.run = nruns + 1,
                                   !.runId = IF ok THEN Len(scrape_runs) + 1 ELSE Null,
                                   !.priorAccepted = lastAccepted]
  /\ nruns' = nruns + 1
  /\ pre' = [stores |-> Stores, ledger |-> scrape_runs]
  /\ UNCHANGED << day, rate_snapshots, supplier_offers, rate_events, latestFile, baselineFile,
                  subscribers, alertLog, discord, profile, stored, lastAccepted >>
  /\ UNCHANGED serverVars

\* lines 605-610: the scraper returns a batch
MainScrape ==
  /\ p.pc = "scrape"
  /\ \E b \in profile.batches :
       p' = [p EXCEPT !.pc = "gate", !.current = b, !.totalOffers = TotalOffers(BatchOf(b))]
  /\ UNCHANGED << day, nruns, faults, scrape_runs, rate_snapshots, supplier_offers, rate_events,
                  latestFile, baselineFile, subscribers, alertLog, discord, profile, stored, lastAccepted, pre >>
  /\ UNCHANGED serverVars

\* lines 611-616: the scraper throws; the run is finalized as failed and exits with 1
MainScrapeThrows ==
  /\ p.pc = "scrape"
  /\ faults < profile.faults
  /\ \E ok \in OutcomesAfter(1) :
       /\ faults' = faults + 1 + (IF ok THEN 0 ELSE 1)
       /\ scrape_runs' = finishScrapeRun(scrape_runs, p.runId, "failed", 0, "scraper threw", ok)
  /\ discord' = sendDiscordAlert(discord, p.run, "scraper failed")
  /\ p' = [p EXCEPT !.pc = "done", !.outcome = "failed", !.exitCode = 1]
  /\ UNCHANGED << day, nruns, rate_snapshots, supplier_offers, rate_events,
                  latestFile, baselineFile, subscribers, alertLog, profile, stored, lastAccepted, pre >>
  /\ UNCHANGED serverVars

\* the gate placed after the write of rates-latest.json, the order of the
\* /cron handler of server.js: a rejected batch has already replaced the file
MainGateAfterSave ==
  /\ p.pc = "gate"
  /\ LET median == getSevenDayMedian(scrape_runs, day)
     IN IF GateAccepts(p.totalOffers, median)
        THEN /\ p' = [p EXCEPT !.pc = "latest", !.median = median, !.outcome = "accepted"]
             /\ lastAccepted' = << p.current >>
             /\ UNCHANGED << faults, scrape_runs, discord >>
        ELSE \E ok \in Outcomes :
             /\ Charge(ok)
             /\ scrape_runs' = finishScrapeRun(scrape_runs, p.runId, "invalid", p.totalOffers,
                                               "below 30% of 7-day median", ok)
             /\ discord' = sendDiscordAlert(discord, p.run, "validation failed")
             /\ p' = [p EXCEPT !.pc = "done", !.median = median, !.outcome = "invalid",
                               !.exitCode = 1]
             /\ UNCHANGED lastAccepted
  /\ latestFile' = << p.current >>
  /\ UNCHANGED << day, nruns, rate_snapshots, supplier_offers, rate_events,
                  baselineFile, subscribers, alertLog, profile, stored, pre >>
  /\ UNCHANGED serverVars

\* the gate with a graceful reject: the run is finalized as invalid, the
\* operator is notified and the process exits with 0
MainGateExitsZero ==
  /\ p.pc = "gate"
  /\ LET median == getSevenDayMedian(scrape_runs, day)
     IN IF GateAccepts(p.totalOffers, median)
        THEN /\ p' = [p EXCEPT !.pc = "latest", !.median = median, !.outcome = "accepted"]
             /\ lastAccepted' = << p.current >>
             /\ UNCHANGED << faults, scrape_runs, discord >>
        ELSE \E ok \in Outcomes :
             /\ Charge(ok)
             /\ scrape_runs' = finishScrapeRun(scrape_runs, p.runId, "invalid", p.totalOffers,
                                               "below 30% of 7-day median", ok)
             /\ discord' = sendDiscordAlert(discord, p.run, "validation failed")
             /\ p' = [p EXCEPT !.pc = "done", !.median = median, !.outcome = "invalid",
                               !.exitCode = 0]
             /\ UNCHANGED lastAccepted
  /\ UNCHANGED << day, nruns, rate_snapshots, supplier_offers, rate_events,
                  latestFile, baselineFile, subscribers, alertLog, profile, stored, pre >>
  /\ UNCHANGED serverVars

\* lines 622-631: the validation gate; on reject the run is finalized as invalid,
\* the operator is notified and the process exits with 1
MainGate ==
  /\ p.pc = "gate"
  /\ LET median == getSevenDayMedian(scrape_runs, day)
     IN IF GateAccepts(p.totalOffers, median)
        THEN /\ p' = [p EXCEPT !.pc = "latest", !.median = median, !.outcome = "accepted"]
             /\ lastAccepted' = << p.current >>
             /\ UNCHANGED << faults, scrape_runs, discord >>
        ELSE \E ok \in Outcomes :
             /\ Charge(ok)
             /\ scrape_runs' = finishScrapeRun(scrape_runs, p.runId, "invalid", p.totalOffers,
                                               "below 30% of 7-day median", ok)
             /\ discord' = sendDiscordAlert(discord, p.run, "validation failed")
             /\ p' = [p EXCEPT !.pc = "done", !.median = median, !.outcome = "invalid",
                               !.exitCode = 1]
             /\ UNCHANGED lastAccepted
  /\ UNCHANGED << day, nruns, rate_snapshots, supplier_offers, rate_events,
                  latestFile, baselineFile, subscribers, alertLog, profile, stored, pre >>
  /\ UNCHANGED serverVars

\* lines 633-635: rates-latest.json is overwritten
MainSaveLatest ==
  /\ p.pc = "latest"
  /\ latestFile' = << p.current >>
  /\ p' = [p EXCEPT !.pc = "snapshot"]
  /\ UNCHANGED << day, nruns, faults, scrape_runs, rate_snapshots, supplier_offers, rate_events,
                  baselineFile, subscribers, alertLog, discord, profile, stored, lastAccepted, pre >>
  /\ UNCHANGED serverVars


\* ---------------------------------------------------- lib/history-store.js
RECURSIVE PageOffers(_, _)
\* the (page, supplier) pairs in the order the two nested loops visit them
PageOffers(rateData, i) ==
  IF i > Len(rateData) THEN << >>
  ELSE [j \in 1..Len(rateData[i].suppliers) |->
          [page |-> rateData[i], s |-> rateData[i].suppliers[j]]]
       \o PageOffers(rateData, i + 1)

OrNull(x) == IF Truthy(x) THEN x ELSE Null      \* x || null

\* insertSnapshot: one transaction, one row per supplier; COMMIT or ROLLBACK and rethrow
SnapshotRows(rateData, today) ==
  LET po == PageOffers(rateData, 1)
  IN [k \in 1..Len(po) |->
        [scraped_at |-> today, category |-> po[k].page.category,
         territory_id |-> OrNull(po[k].page.territoryId), rate_code |-> OrNull(po[k].page.rateCode),
         sco_rate |-> OrNull(po[k].page.defaultRate), supplier_name |-> po[k].s.name,
         price |-> OrNull(po[k].s.price), rate_type |-> po[k].s.rateType,
         term_months |-> OrNull(po[k].s.termMonths)]]

insertSnapshot(table, rateData, today, ok) ==
  IF ok THEN Append(table, [scraped_at |-> today, data |-> rateData]) ELSE table

RECURSIVE RateSnapshotRows(_, _)
\* the rows of rate_snapshots
RateSnapshotRows(table, i) ==
  IF i > Len(table) THEN << >>
  ELSE SnapshotRows(BatchOf(table[i].data), table[i].scraped_at) \o RateSnapshotRows(table, i + 1)

\* detectBundle(offerDetails, promoDetails)
detectBundle(offerDetails) == offerDetails = "bundle"

OfferRows(results, date) ==
  LET po == PageOffers(results, 1)
  IN [k \in 1..Len(po) |->
        [scraped_date |-> date, category |-> po[k].page.category,
         territory_id |-> OrNull(po[k].page.territoryId), rate_code |-> OrNull(po[k].page.rateCode),
         offer_id |-> OrNull(po[k].s.offerId), supplier_name |-> po[k].s.name,
         price |-> po[k].s.price, rate_type |-> po[k].s.rateType,
         term_months |-> po[k].s.termMonths, is_intro |-> po[k].s.introPrice,
         is_bundle_required |-> detectBundle(po[k].s.offerDetails),
         offer_details |-> po[k].s.offerDetails]]

RECURSIVE InsertOfferRows(_, _, _)
\* INSERT ... ON CONFLICT DO NOTHING under UNIQUE(scraped_date, offer_id); NULL ids never conflict
InsertOfferRows(table, rows, i) ==
  IF i > Len(rows) THEN table
  ELSE LET r == rows[i]
           conflict == r.offer_id # Null /\ \E k \in 1..Len(table) :
                          table[k].scraped_date = r.scraped_date /\ table[k].offer_id = r.offer_id
       IN InsertOfferRows(IF conflict THEN table ELSE Append(table, r), rows, i + 1)

\* insertSupplierOffers: one transaction; returns the number of offers visited
insertSupplierOffers(table, date, results, ok) ==
  IF ok THEN Append(table, [scraped_date |-> date, data |-> results]) ELSE table

RECURSIVE ReplayOffers(_, _, _)
ReplayOffers(table, i, rows) ==
  IF i > Len(table) THEN rows
  ELSE ReplayOffers(table, i + 1,
         InsertOfferRows(rows, OfferRows(BatchOf(table[i].data), table[i].scraped_date), 1))

\* the rows of supplier_offers: the committed inserts replayed in order
SupplierOfferRows(table) == ReplayOffers(table, 1, << >>)

\* lines 637-643: the snapshot write; a failure is logged as a warning and the run goes on
MainInsertSnapshot ==
  /\ p.pc = "snapshot"
  /\ \E ok \in Outcomes :
       /\ Charge(ok)
       /\ rate_snapshots' = insertSnapshot(rate_snapshots, p.current, day, ok)
       /\ p' = [p EXCEPT !.pc = "offers", !.writeFailed = ~ok]
  /\ UNCHANGED << day, nruns, scrape_runs, supplier_offers, rate_events, latestFile,
                  baselineFile, subscribers, alertLog, discord, profile, stored, lastAccepted, pre >>
  /\ UNCHANGED serverVars

\* lines 645-653: the offers write; a failure is logged as a warning, offerCount stays 0
MainInsertOffers ==
  /\ p.pc = "offers"
  /\ \E ok \in Outcomes :
       /\ Charge(ok)
       /\ supplier_offers' = insertSupplierOffers(supplier_offers, day, p.current, ok)
       /\ p' = [p EXCEPT !.pc = "finish", !.writeFailed = p.writeFailed \/ ~ok,
                         !.offerCount = IF ok THEN Len(PageOffers(BatchOf(p.current), 1)) ELSE 0]
       /\ stored' = IF ok /\ ~p.writeFailed /\ p.runId # Null
                    THEN stored \cup {p.runId} ELSE stored
  /\ UNCHANGED << day, nruns, scrape_runs, rate_snapshots, rate_events, latestFile,
                  baselineFile, subscribers, alertLog, discord, profile, lastAccepted, pre >>
  /\ UNCHANGED serverVars

\* line 655: finishScrapeRun(runId, 'success', offerCount)
MainFinishSuccess ==
  /\ p.pc = "finish"
  /\ \E ok \in Outcomes :
       /\ Charge(ok)
       /\ scrape_runs' = finishScrapeRun(scrape_runs, p.runId, "success", p.offerCount, "NULL", ok)
  /\ p' = [p EXCEPT !.pc = "diff"]
  /\ UNCHANGED << day, nruns, rate_snapshots, supplier_offers, rate_events, latestFile,
                  baselineFile, subscribers, alertLog, discord, profile, stored, lastAccepted, pre >>
  /\ UNCHANGED serverVars


\* ------------------------------------------------------- rate_events writes
EventRow(runId, c) ==
  [scrape_run_id |-> runId,
   supplier_name |-> IF Truthy(c.supplier) THEN c.supplier ELSE 1000 + c.territoryId,
   event_type |-> IF c.type = "new_offer" THEN "new_offer"
                  ELSE IF c.type = "removed_offer" THEN "removed_offer" ELSE "rate_change",
   old_rate |-> OrNull(c.prevRate), new_rate |-> OrNull(c.currRate),
   change_abs |-> IF c.currRate # Null /\ c.prevRate # Null THEN c.currRate - c.prevRate ELSE Null,
   change_pct |-> c.changePct]

\* recordRateEvents writing the table anew: the rows of earlier runs are lost
recordRateEventsReplacing(table, runId, changes, failAt) ==
  IF runId = Null \/ changes = << >> THEN table
  ELSE LET n == IF failAt = 0 THEN Len(changes) ELSE failAt - 1
       IN [k \in 1..n |-> EventRow(runId, changes[k])]

\* recordRateEvents: nothing without runId or without changes; otherwise one
\* autocommitted INSERT per change.  failAt = 0: every INSERT succeeds;
\* failAt = k: the k-th INSERT throws, the k-1 rows before it stay, the error is logged
recordRateEvents(table, runId, changes, failAt) ==
  IF runId = Null \/ changes = << >> THEN table
  ELSE LET n == IF failAt = 0 THEN Len(changes) ELSE failAt - 1
       IN table \o [k \in 1..n |-> EventRow(runId, changes[k])]

FailPoints(runId, changes) ==
  IF runId = Null \/ changes = << >> \/ faults >= profile.faults THEN {0}
  ELSE {0} \cup ({1, 2} \cap (1..Len(changes)))

\* lines 657-684: diff against the baseline file and record the events; without a
\* baseline file the current batch becomes the baseline
MainDiff ==
  /\ p.pc = "diff"
  /\ IF baselineFile # << >>
     THEN LET changes == SignificantChanges(BatchOf(baselineFile[1]), BatchOf(p.current))
          IN \E failAt \in FailPoints(p.runId, changes) :
               /\ faults' = IF failAt = 0 THEN faults ELSE faults + 1
               /\ rate_events' = recordRateEvents(rate_events, p.runId, changes, failAt)
               /\ p' = [p EXCEPT !.pc = "decide", !.changes = changes, !.previous = baselineFile]
               /\ UNCHANGED baselineFile
     ELSE /\ baselineFile' = << p.current >>
          /\ p' = [p EXCEPT !.pc = "decide"]
          /\ UNCHANGED << faults, rate_events >>
  /\ UNCHANGED << day, nruns, scrape_runs, rate_snapshots, supplier_offers, latestFile,
                  subscribers, alertLog, discord, profile, stored, lastAccepted, pre >>
  /\ UNCHANGED serverVars

\* lines 686-699: --force-alert injects one test change when none was found
TestChange ==
  [type |-> "default_rate", territoryId |-> 8, supplier |-> Null,
   prevRate |-> 1071, currRate |-> 899, changePct |-> 0 - 1606]

\* main without the --force-alert override
DetectedChangesOnly(proc) == proc.changes

ForcedChanges(proc) ==
  IF proc.FORCE_ALERT /\ proc.changes = << >> THEN << TestChange >> ELSE proc.changes

\* lines 701-704: nothing changed: exit with 0, the baseline file is left alone
MainNoChanges ==
  /\ p.pc = "decide"
  /\ ForcedChanges(p) = << >>
  /\ p' = [p EXCEPT !.pc = "done", !.exitCode = 0]
  /\ UNCHANGED << day, nruns, faults, scrape_runs, rate_snapshots, supplier_offers, rate_events,
                  latestFile, baselineFile, subscribers, alertLog, discord, profile, stored, lastAccepted, pre >>
  /\ UNCHANGED serverVars

\* lines 706-712: something changed: the current batch becomes the baseline
MainUpdateBaseline ==
  /\ p.pc = "decide"
  /\ ForcedChanges(p) # << >>
  /\ baselineFile' = << p.current >>
  /\ p' = [p EXCEPT !.pc = "alerts", !.changes = ForcedChanges(p), !.tIdx = 1, !.sIdx = 0]
  /\ UNCHANGED << day, nruns, faults, scrape_runs, rate_snapshots, supplier_offers, rate_events,
                  latestFile, subscribers, alertLog, discord, profile, stored, lastAccepted, pre >>
  /\ UNCHANGED serverVars

\* ------------------------------------------------------ sendSubscriberAlerts
\* line 331-332: the SCO rate of the first NaturalGas page of the territory, "|| null"
RECURSIVE ScoRate(_, _, _)
ScoRate(currentRates, territoryId, i) ==
  IF i > Len(currentRates) THEN Null
  ELSE IF currentRates[i].territoryId = territoryId /\ currentRates[i].category = "NaturalGas"
       THEN OrNull(currentRates[i].defaultRate)
  ELSE ScoRate(currentRates, territoryId, i + 1)

\* lines 336-345: the WHERE clause of the best-offer query.  NOT ILIKE on a NULL
\* offer_details is NULL, so a row without description text is filtered out.
Qualifies(r, territoryId, today) ==
  /\ r.territory_id = territoryId /\ r.category = "NaturalGas" /\ r.rate_code = 1
  /\ r.rate_type = "fixed" /\ r.is_intro = FALSE
  /\ r.price # Null /\ r.price > PriceFloor
  /\ r.scraped_date = today
  /\ r.offer_details = "plain"

\* ORDER BY price ASC LIMIT 1: the price of the best row, or Null when there is none
BestPrice(table, territoryId, today) ==
  LET prices == { table[k].price : k \in { j \in 1..Len(table) : Qualifies(table[j], territoryId, today) } }
  IN IF prices = {} THEN Null ELSE CHOOSE x \in prices : \A y \in prices : x <= y

\* line 370: Math.round((1 - bestOffer.price / baseline) * 100)
SavingsPct(bestPrice, baseline) == RoundDiv(100 * (baseline - bestPrice), baseline)

\* line 367
Baseline(sub, scoRate) == IF Truthy(sub.current_rate) THEN sub.current_rate ELSE scoRate

\* the throttle without the 7-day test: only the 3% test is left
ThrottledByRateOnly(sub, bestPrice, today) ==
  /\ sub.last_alerted_at # Null
  /\ Truthy(sub.last_alerted_rate)
  /\ 100 * Abs(bestPrice - sub.last_alerted_rate) <= RateDiffPct * sub.last_alerted_rate

\* lines 374-381: the throttle; TRUE when the subscriber is skipped
Throttled(sub, bestPrice, today) ==
  /\ sub.last_alerted_at # Null
  /\ \/ sub.last_alerted_at > today - CooldownDays
     \/ /\ Truthy(sub.last_alerted_rate)
        /\ 100 * Abs(bestPrice - sub.last_alerted_rate) <= RateDiffPct * sub.last_alerted_rate

\* the subscriber test without line 365: a subscriber without territory is
\* handled in every territory pass
ShouldAlertEveryPass(sub, tKey, bestPrice, scoRate, today) ==
  /\ sub.confirmed /\ (sub.territory = tKey \/ sub.territory = "NULL")
  /\ Truthy(Baseline(sub, scoRate)) /\ Baseline(sub, scoRate) > 0
  /\ ~ (SavingsPct(bestPrice, Baseline(sub, scoRate))
          < (IF Truthy(sub.min_savings_pct) THEN sub.min_savings_pct ELSE DefaultMinSavings))
  /\ ~ Throttled(sub, bestPrice, today)

\* lines 355, 365-381: the subscriber is selected by the query and passes every "continue"
ShouldAlert(sub, tKey, bestPrice, scoRate, today) ==
  /\ sub.confirmed /\ (sub.territory = tKey \/ sub.territory = "NULL")
  /\ ~ (sub.territory = "NULL" /\ tKey # "columbia")
  /\ Truthy(Baseline(sub, scoRate)) /\ Baseline(sub, scoRate) > 0
  /\ ~ (SavingsPct(bestPrice, Baseline(sub, scoRate))
          < (IF Truthy(sub.min_savings_pct) THEN sub.min_savings_pct ELSE DefaultMinSavings))
  /\ ~ Throttled(sub, bestPrice, today)

AlertsAdvance(proc) ==
  IF proc.tIdx = Len(TERRITORY_CONFIG)
  THEN [proc EXCEPT !.pc = "wrapup", !.tIdx = 0, !.sIdx = 0, !.bestPrice = Null]
  ELSE [proc EXCEPT !.tIdx = proc.tIdx + 1, !.sIdx = 0, !.bestPrice = Null]

\* lines 329-359: one territory pass begins; without a qualifying offer it is skipped
AlertsTerritory ==
  /\ p.pc = "alerts" /\ p.sIdx = 0
  /\ LET best == BestPrice(SupplierOfferRows(supplier_offers), TERRITORY_CONFIG[p.tIdx].id, day)
     IN p' = IF best = Null THEN AlertsAdvance(p)
             ELSE [p EXCEPT !.sIdx = 1, !.bestPrice = best]
  /\ UNCHANGED << day, nruns, faults, scrape_runs, rate_snapshots, supplier_offers, rate_events,
                  latestFile, baselineFile, subscribers, alertLog, discord, profile, stored, lastAccepted, pre >>
  /\ UNCHANGED serverVars

\* sendEmail: nothing is sent with --dry-run; otherwise the mail service accepts
\* the message (accepted) or answers with an error, which is thrown.  TRUE
\* when a message was delivered
sendEmail(dry, accepted) == ~dry /\ accepted

\* the e-mails the mail service accepted
Outbox == SelectSeq(alertLog, LAMBDA m : m.delivered)

\* lines 363-399: one subscriber of the pass.  sent: the mail service accepted
\* the message; marked: the UPDATE of the subscriber row succeeded
AlertsSubscriber ==
  /\ p.pc = "alerts" /\ p.sIdx >= 1
  /\ LET sub     == subscribers[p.sIdx]
         tKey    == TERRITORY_CONFIG[p.tIdx].key
         scoRate == ScoRate(BatchOf(p.current), TERRITORY_CONFIG[p.tIdx].id, 1)
         next    == IF p.sIdx = Len(subscribers) THEN AlertsAdvance(p)
                    ELSE [p EXCEPT !.sIdx = p.sIdx + 1]
     IN IF ShouldAlert(sub, tKey, p.bestPrice, scoRate, day)
        THEN \E sent \in (IF p.DRY_RUN THEN {TRUE} ELSE Outcomes) :
             \E marked \in (IF sent THEN Outcomes ELSE {FALSE}) :
               /\ faults' = IF sent /\ marked THEN faults ELSE faults + 1
               /\ alertLog' = Append(alertLog,
                     [to |-> p.sIdx, run |-> p.run, day |-> day, price |-> p.bestPrice,
                      baseline |-> Baseline(sub, scoRate),
                      threshold |-> IF Truthy(sub.min_savings_pct) THEN sub.min_savings_pct
                                    ELSE DefaultMinSavings,
                      lastAt |-> sub.last_alerted_at, lastRate |-> sub.last_alerted_rate,
                      dry |-> p.DRY_RUN,
                      delivered |-> sendEmail(p.DRY_RUN, sent), marked |-> sent /\ marked])
               /\ subscribers' = IF sent /\ marked
                                 THEN [subscribers EXCEPT ![p.sIdx] =
                                         [@ EXCEPT !.last_alerted_at = day,
                                                   !.last_alerted_rate = p.bestPrice]]
                                 ELSE subscribers
               /\ p' = next
        ELSE /\ p' = next
             /\ UNCHANGED << faults, alertLog, subscribers >>
  /\ UNCHANGED << day, nruns, scrape_runs, rate_snapshots, supplier_offers, rate_events,
                  latestFile, baselineFile, discord, profile, stored, lastAccepted, pre >>
  /\ UNCHANGED serverVars

\* lines 723-741: the city-bill scrape and the owner notification, both inside
\* try/catch and without effect on the stores of this model (building the owner
\* mail reads the undeclared names sent and subscribers, so it throws before
\* sendEmail is called); main returns
MainWrapUp ==
  /\ p.pc = "wrapup"
  /\ p' = [p EXCEPT !.pc = "done", !.exitCode = 0]
  /\ UNCHANGED << day, nruns, faults, scrape_runs, rate_snapshots, supplier_offers, rate_events,
                  latestFile, baselineFile, subscribers, alertLog, discord, profile, stored, lastAccepted, pre >>
  /\ UNCHANGED serverVars

\* ------------------------------------------------------------- the web server
\* isRateLimited keeping the rejected call in the log as well
isRateLimitedCountingRejected(log, ip, t) ==
  LET hits == SelectSeq(log[ip], LAMBDA h : t - h < SignupWindow)
  IN [limited |-> Len(hits) >= MaxSignups, log |-> [log EXCEPT ![ip] = Append(hits, t)]]

\* isRateLimited(ip): the hits of the ip younger than the window; with max of
\* them the call is limited and nothing is stored; otherwise the call is
\* pushed and the filtered list stored
isRateLimited(log, ip, t) ==
  LET hits == SelectSeq(log[ip], LAMBDA h : t - h < SignupWindow)
  IN IF Len(hits) >= MaxSignups THEN [limited |-> TRUE, log |-> log]
     ELSE [limited |-> FALSE, log |-> [log EXCEPT ![ip] = Append(hits, t)]]

COALESCE(x, y) == IF x # Null THEN x ELSE y

\* the upsert with "confirmed = FALSE, confirm_token = EXCLUDED.confirm_token":
\* every signup starts the confirmation anew
UpsertResettingConfirmation(table, email, territory, rate, minPct, token) ==
  IF \E i \in 1..Len(table) : table[i].email = email
  THEN [i \in 1..Len(table) |->
          IF table[i].email # email THEN table[i]
          ELSE [table[i] EXCEPT !.territory = IF territory # "NULL" THEN territory ELSE @,
                                !.current_rate = COALESCE(rate, @),
                                !.min_savings_pct = minPct,
                                !.confirm_token = token,
                                !.confirmed = FALSE]]
  ELSE Append(table, Subscriber(email, territory, FALSE, rate, minPct, token))

\* INSERT INTO subscribers ... ON CONFLICT (email) DO UPDATE: a new row is
\* unconfirmed (column default) and carries the new token; an existing row keeps
\* its confirmed flag, and its token unless it is still unconfirmed
Upsert(table, email, territory, rate, minPct, token) ==
  IF \E i \in 1..Len(table) : table[i].email = email
  THEN [i \in 1..Len(table) |->
          IF table[i].email # email THEN table[i]
          ELSE [table[i] EXCEPT !.territory = IF territory # "NULL" THEN territory ELSE @,
                                !.current_rate = COALESCE(rate, @),
                                !.min_savings_pct = minPct,
                                !.confirm_token = IF table[i].confirmed THEN @ ELSE token]]
  ELSE Append(table, Subscriber(email, territory, FALSE, rate, minPct, token))

\* UPDATE subscribers SET confirmed = TRUE, confirm_token = NULL WHERE confirm_token = $1
ConfirmRows(table, token) ==
  [i \in 1..Len(table) |->
     IF table[i].confirm_token = token
     THEN [table[i] EXCEPT !.confirmed = TRUE, !.confirm_token = Null]
     ELSE table[i]]

\* the rows it matches; their number is its rowCount
RowsMatched(table, token) == { i \in 1..Len(table) : table[i].confirm_token = token }

\* the daily-check process is not between the subscriber query of a territory
\* pass and the end of its loop over the rows the query returned
OutsideAlertPass == p.pc # "alerts"

\* POST /api/subscribe: 429 when the caller is rate limited; 400 for a body
\* without a valid address (email 0); otherwise the upsert with a fresh
\* confirmation token.  The body carries a Columbia ZIP code and a current
\* rate of 1.200 $/ccf, and no min_savings_pct (15 is taken).
PostSubscribe ==
  /\ ncalls < profile.calls
  /\ OutsideAlertPass
  /\ \E ip \in profile.ips, email \in profile.emails :
       LET r == isRateLimited(ipSignupLog, ip, now)
       IN /\ ipSignupLog' = r.log
          /\ lastCall' = << [ip |-> ip, t |-> now, limited |-> r.limited, email |-> email] >>
          /\ admitted' = IF r.limited THEN admitted
                         ELSE [admitted EXCEPT ![ip] = Append(@, now)]
          /\ IF r.limited \/ email = 0
             THEN UNCHANGED << subscribers, ntokens >>
             ELSE /\ ntokens' = ntokens + 1
                  /\ subscribers' = Upsert(subscribers, email, "columbia", 1200,
                                           DefaultMinSavings, ntokens + 1)
  /\ ncalls' = ncalls + 1
  /\ UNCHANGED << now, nconfirms, confirmations, cron >>
  /\ UNCHANGED mainVars

\* GET /confirm?token=...: any token issued so far may be presented
GetConfirm ==
  /\ nconfirms < profile.confirms
  /\ OutsideAlertPass
  /\ \E token \in 1..ntokens :
       /\ subscribers' = ConfirmRows(subscribers, token)
       /\ confirmations' =
            IF Cardinality(RowsMatched(subscribers, token)) > 0
            THEN Append(confirmations, [token |-> token, rows |-> RowsMatched(subscribers, token)])
            ELSE confirmations
  /\ nconfirms' = nconfirms + 1
  /\ UNCHANGED << ipSignupLog, now, ncalls, admitted, lastCall, ntokens, cron >>
  /\ UNCHANGED mainVars

\* time passes at the server
ClockTick ==
  /\ now < profile.ticks
  /\ now' = now + 1
  /\ UNCHANGED << ipSignupLog, ncalls, admitted, lastCall, ntokens, nconfirms, confirmations,
                  subscribers, cron >>
  /\ UNCHANGED mainVars

\* ------------------------------------------- POST /api/cron/daily-check
\* what the background function of the handler leaves alone
cronFrame == << day, nruns, scrape_runs, rate_events, subscribers, alertLog, discord, p, profile,
                stored, lastAccepted, pre >>

\* the request is authenticated, answered with 200 at once, and the background
\* function starts; nothing prevents a second one from starting.  The requests
\* are numbered in the order of their arrival.
CronPost(h) ==
  /\ h <= profile.crons
  /\ cron[h].pc = "idle"
  /\ h > 1 => cron[h - 1].pc # "idle"
  /\ cron' = [cron EXCEPT ![h].pc = "scrape"]
  /\ UNCHANGED << faults, rate_snapshots, supplier_offers, latestFile, baselineFile >>
  /\ UNCHANGED cronFrame /\ UNCHANGED signupVars

\* scrapeAllRates resolves and rates-latest.json is written in the same turn
CronScrape(h) ==
  /\ cron[h].pc = "scrape"
  /\ \E b \in profile.batches :
       /\ cron' = [cron EXCEPT ![h].pc = "snapshot", ![h].current = b]
       /\ latestFile' = << b >>
  /\ UNCHANGED << faults, rate_snapshots, supplier_offers, baselineFile >>
  /\ UNCHANGED cronFrame /\ UNCHANGED signupVars

\* insertSnapshot inside try/catch: a failure is pushed to errors and the function goes on
CronInsertSnapshot(h) ==
  /\ cron[h].pc = "snapshot"
  /\ \E ok \in Outcomes :
       /\ Charge(ok)
       /\ rate_snapshots' = insertSnapshot(rate_snapshots, cron[h].current, day, ok)
  /\ cron' = [cron EXCEPT ![h].pc = "offers"]
  /\ UNCHANGED << supplier_offers, latestFile, baselineFile >>
  /\ UNCHANGED cronFrame /\ UNCHANGED signupVars

\* insertSupplierOffers inside try/catch, likewise
CronInsertOffers(h) ==
  /\ cron[h].pc = "offers"
  /\ \E ok \in Outcomes :
       /\ Charge(ok)
       /\ supplier_offers' = insertSupplierOffers(supplier_offers, day, cron[h].current, ok)
  /\ cron' = [cron EXCEPT ![h].pc = "compare"]
  /\ UNCHANGED << rate_snapshots, latestFile, baselineFile >>
  /\ UNCHANGED cronFrame /\ UNCHANGED signupVars

\* the baseline file is read and compared; with significant changes the owner
\* mail is awaited before the baseline is written, otherwise it is written in
\* the same turn (RESEND_API_KEY is set)
CronCompare(h) ==
  /\ cron[h].pc = "compare"
  /\ IF /\ baselineFile # << >>
        /\ FilterSignificant(detectChanges(BatchOf(baselineFile[1]), BatchOf(cron[h].current))) # << >>
     THEN /\ cron' = [cron EXCEPT ![h].pc = "baseline", ![h].previous = baselineFile]
          /\ UNCHANGED baselineFile
     ELSE /\ cron' = [cron EXCEPT ![h].pc = "done", ![h].previous = baselineFile]
          /\ baselineFile' = << cron[h].current >>
  /\ UNCHANGED << faults, rate_snapshots, supplier_offers, latestFile >>
  /\ UNCHANGED cronFrame /\ UNCHANGED signupVars

\* the owner mail has been sent or has failed (caught): the baseline is rewritten
CronUpdateBaseline(h) ==
  /\ cron[h].pc = "baseline"
  /\ baselineFile' = << cron[h].current >>
  /\ cron' = [cron EXCEPT ![h].pc = "done"]
  /\ UNCHANGED << faults, rate_snapshots, supplier_offers, latestFile >>
  /\ UNCHANGED cronFrame /\ UNCHANGED signupVars

\* ------------------------------------------------------------- environment
\* the process has ended and time passes until the job is scheduled again
NextDay ==
  /\ p.pc = "done"
  /\ nruns < profile.runs
  /\ \E d \in profile.steps : day' = day + d
  /\ p' = [p EXCEPT !.pc = "idle"]
  /\ UNCHANGED << nruns, faults, scrape_runs, rate_snapshots, supplier_offers, rate_events,
                  latestFile, baselineFile, subscribers, alertLog, discord, profile, stored,
                  lastAccepted, pre >>
  /\ UNCHANGED serverVars

Next ==
  \/ MainStart
  \/ MainScrape
  \/ MainScrapeThrows
  \/ MainGate
  \/ MainSaveLatest
  \/ MainInsertSnapshot
  \/ MainInsertOffers
  \/ MainFinishSuccess
  \/ MainDiff
  \/ MainNoChanges
  \/ MainUpdateBaseline
  \/ AlertsTerritory
  \/ AlertsSubscriber
  \/ MainWrapUp
  \/ NextDay
  \/ PostSubscribe
  \/ GetConfirm
  \/ ClockTick
  \/ \E h \in 1..MaxCron : CronPost(h)
  \/ \E h \in 1..MaxCron : CronScrape(h)
  \/ \E h \in 1..MaxCron : CronInsertSnapshot(h)
  \/ \E h \in 1..MaxCron : CronInsertOffers(h)
  \/ \E h \in 1..MaxCron : CronCompare(h)
  \/ \E h \in 1..MaxCron : CronUpdateBaseline(h)

Spec == Init /\ [][Next]_vars

TypeOK ==
  /\ p.pc \in {"idle", "scrape", "gate", "latest", "snapshot", "offers", "finish", "diff",
               "decide", "alerts", "wrapup", "done"}
  /\ faults \in 0..profile.faults
  /\ nruns \in 0..profile.runs
  /\ now \in 0..profile.ticks
  /\ ncalls \in 0..profile.calls
  /\ nconfirms \in 0..profile.confirms
  /\ \A h \in 1..MaxCron :
       cron[h].pc \in {"idle", "scrape", "snapshot", "offers", "compare", "baseline", "done"}
  /\ \A ip \in IPs : Len(ipSignupLog[ip]) <= MaxSignups

\* ------------------------------------------------------------------ claims
\* the run of the process has been decided by the gate
Rejected == p.outcome = "invalid"
Accepted == p.outcome = "accepted"

\* the ledger row of the current run, when it has one
HasRecord == p.runId # Null
RunRecord == scrape_runs[p.runId]

OperatorNotified(kind) ==
  \E k \in 1..Len(discord) : discord[k] = [run |-> p.run, kind |-> kind]

\* C1: given a trailing median M > 0, the gate accepts a batch of T offers if and
\* only if T >= 0.30 * M (p.median is the doubled median, so 20 T >= 3 * p.median);
\* stated for the behaviours in which no collaborator has failed
C1_GateAcceptsIffThirtyPercent ==
  (faults = 0 /\ (Accepted \/ Rejected) /\ p.median # Null /\ p.median > 0)
    => (Accepted <=> 20 * p.totalOffers >= 3 * p.median)

C3_RejectedRunLeavesStores ==
  /\ p.outcome \in {"invalid", "failed"}
       => /\ Stores = pre.stores
          /\ Len(scrape_runs) <= Len(pre.ledger) + 1
          /\ \A i \in 1..Len(pre.ledger) : scrape_runs[i] = pre.ledger[i]
  /\ ~GateAccepts(5, 2 * 200)

C3_Witness ==
  /\ Rejected /\ p.pc = "done"
  /\ p.totalOffers = 5 /\ p.median # Null
  /\ latestFile # << >> /\ baselineFile # << >>
  /\ rate_snapshots # << >> /\ supplier_offers # << >>

\* C4: acceptance is atomic: no state shows rate events of a run whose batch
\* is not stored, nor a run marked success whose batch is not stored
C4_AcceptanceAtomic ==
  /\ \A k \in 1..Len(rate_events) : rate_events[k].scrape_run_id \in stored
  /\ \A i \in 1..Len(scrape_runs) : scrape_runs[i].status = "success" => i \in stored

\* C5: when a store write of an accepted batch fails the run is never marked
\* success; it ends failed with the whole batch rolled back
C5_WriteFailureEndsFailed ==
  (p.writeFailed /\ HasRecord)
    => /\ RunRecord.status # "success"
       /\ p.pc = "done" => /\ RunRecord.status = "failed"
                           /\ rate_snapshots = pre.stores.rate_snapshots
                           /\ supplier_offers = pre.stores.supplier_offers

\* the current run has compared its batch with an earlier one
Diffed == Accepted /\ p.pc \in {"decide", "alerts", "wrapup", "done"}
Compared == Diffed /\ p.previous # << >> /\ HasRecord /\ faults = 0
PrevBatch == BatchOf(p.previous[1])
CurrBatch == BatchOf(p.current)

\* the pages present in both batches, as pairs of indices
PagePairs ==
  { ij \in (1..Len(PrevBatch)) \X (1..Len(CurrBatch)) :
      /\ PrevBatch[ij[1]].category = CurrBatch[ij[2]].category
      /\ PrevBatch[ij[1]].territoryId = CurrBatch[ij[2]].territoryId
      /\ PrevBatch[ij[1]].rateCode = CurrBatch[ij[2]].rateCode }

\* the match key of an offer
OfferKey(s) == << s.name, s.termMonths, s.rateType >>

EventsOfRun(type, name) ==
  { k \in 1..Len(rate_events) :
      /\ rate_events[k].scrape_run_id = p.runId
      /\ rate_events[k].event_type = type
      /\ rate_events[k].supplier_name = name }

RateChangeRecorded(name, old, new) ==
  \E k \in EventsOfRun("rate_change", name) :
     rate_events[k].old_rate = old /\ rate_events[k].new_rate = new

\* C6: for every offer matched by key in both batches whose price differs, a
\* rate_change event of the run exists if and only if |delta| >= 0.01 and
\* |delta %| >= 5; every non-zero change of a default rate has its event,
\* whatever the number of changes in the run
C6_RateChangeIffSignificant ==
  Compared =>
    \A ij \in PagePairs :
      LET prev == PrevBatch[ij[1]]
          curr == CurrBatch[ij[2]]
      IN /\ \A a \in 1..Len(prev.suppliers), b \in 1..Len(curr.suppliers) :
              LET ps == prev.suppliers[a]
                  cs == curr.suppliers[b]
              IN (OfferKey(ps) = OfferKey(cs) /\ ps.price # Null /\ cs.price # Null
                    /\ ps.price # cs.price)
                 => (RateChangeRecorded(cs.name, ps.price, cs.price)
                       <=> (Abs(cs.price - ps.price) >= AbsThreshold
                            /\ 100 * 100 * Abs(cs.price - ps.price) >= PctThreshold * ps.price))
         /\ (prev.defaultRate # Null /\ curr.defaultRate # Null
               /\ prev.defaultRate # curr.defaultRate)
            => RateChangeRecorded(1000 + curr.territoryId, prev.defaultRate, curr.defaultRate)

\* C7: an offer of the prior batch without a match in the current one has
\* exactly one removed_offer event of the run, an offer of the current batch
\* without a match in the prior one exactly one new_offer event
C7_OneEventPerArrivalAndRemoval ==
  Compared =>
    \A ij \in PagePairs :
      LET prev == PrevBatch[ij[1]]
          curr == CurrBatch[ij[2]]
          prevKeys == { OfferKey(prev.suppliers[a]) : a \in 1..Len(prev.suppliers) }
          currKeys == { OfferKey(curr.suppliers[b]) : b \in 1..Len(curr.suppliers) }
      IN /\ \A a \in 1..Len(prev.suppliers) :
              OfferKey(prev.suppliers[a]) \notin currKeys
                => Cardinality(EventsOfRun("removed_offer", prev.suppliers[a].name)) = 1
         /\ \A b \in 1..Len(curr.suppliers) :
              OfferKey(curr.suppliers[b]) \notin prevKeys
                => Cardinality(EventsOfRun("new_offer", curr.suppliers[b].name)) = 1

\* C8: the batch a run is compared with is the batch of the most recent
\* earlier run that passed the gate, whether or not that run detected a change
C8_DiffAgainstLastAccepted ==
  Diffed => p.previous = p.priorAccepted

\* C9: an alert is fired only if the savings (baseline - best) / baseline are
\* at least the subscriber's threshold and the subscriber was never alerted
\* before or was alerted at least 7 days ago at a rate more than 3% away;
\* stated for the behaviours in which no collaborator has failed
C9_AlertOnlyWhenEligible ==
  faults = 0 => \A k \in 1..Len(alertLog) :
    LET m == alertLog[k]
    IN /\ 100 * (m.baseline - m.price) >= m.threshold * m.baseline
       /\ \/ m.lastAt = Null
          \/ /\ m.day - m.lastAt >= CooldownDays
             /\ 100 * Abs(m.price - m.lastRate) > RateDiffPct * m.lastRate

\* C10: last_alerted_at and last_alerted_rate of a subscriber change in a run
\* only if an alert e-mail was delivered to that subscriber in that run;
\* stated for the behaviours in which no collaborator has failed
C10_MarkedOnlyAfterDelivery ==
  faults = 0 => \A s \in 1..Len(pre.stores.subscribers) :
    (\/ subscribers[s].last_alerted_at # pre.stores.subscribers[s].last_alerted_at
     \/ subscribers[s].last_alerted_rate # pre.stores.subscribers[s].last_alerted_rate)
      => \E k \in 1..Len(alertLog) :
            alertLog[k].to = s /\ alertLog[k].run = p.run /\ alertLog[k].delivered

\* ---- alerts: claim-side vocabulary
\* the territory pass in which a subscriber is handled (a subscriber without
\* territory is handled in the Columbia pass)
PassOf(sub) ==
  LET key == IF sub.territory = "NULL" THEN "columbia" ELSE sub.territory
  IN CHOOSE t \in 1..Len(TERRITORY_CONFIG) : TERRITORY_CONFIG[t].key = key

\* the eligibility rules (savings, cooldown, delta) for subscriber s against
\* today's stored offers and the current batch, in exact arithmetic
EligibleNow(s) ==
  LET sub  == subscribers[s]
      id   == TERRITORY_CONFIG[PassOf(sub)].id
      best == BestPrice(SupplierOfferRows(supplier_offers), id, day)
      base == Baseline(sub, ScoRate(CurrBatch, id, 1))
      thr  == IF Truthy(sub.min_savings_pct) THEN sub.min_savings_pct ELSE DefaultMinSavings
  IN /\ sub.confirmed
     /\ best # Null
     /\ Truthy(base) /\ base > 0
     /\ 100 * (base - best) >= thr * base
     /\ \/ sub.last_alerted_at = Null
        \/ /\ day - sub.last_alerted_at >= CooldownDays
           /\ 100 * Abs(best - sub.last_alerted_rate) > RateDiffPct * sub.last_alerted_rate

AttemptedIn(s, run) ==
  \E j \in 1..Len(alertLog) : alertLog[j].to = s /\ alertLog[j].run = run

DeliveryFailed(m) == ~m.dry /\ ~m.delivered

\* C11, the remaining subscribers: at the end of an alerts pass in which a
\* delivery failed, every subscriber that is still owed an alert was attempted
C11_RemainingStillHandled ==
  (p.pc \in {"wrapup", "done"} /\ Accepted
     /\ \E k \in 1..Len(alertLog) : DeliveryFailed(alertLog[k]) /\ alertLog[k].run = p.run)
    => \A s \in 1..Len(subscribers) : EligibleNow(s) => AttemptedIn(s, p.run)

\* C11, not marked: a subscriber whose delivery failed keeps its last_alerted fields
C11_FailedNotMarked ==
  \A k \in 1..Len(alertLog) :
    (DeliveryFailed(alertLog[k]) /\ alertLog[k].run = p.run)
      => /\ ~alertLog[k].marked
         /\ subscribers[alertLog[k].to] = pre.stores.subscribers[alertLog[k].to]

\* C11, retried: the run after a failed delivery attempts the alert again when
\* the subscriber still satisfies the eligibility rules
C11_FailedRetriedNextRun ==
  (p.pc = "done" /\ Accepted)
    => \A k \in 1..Len(alertLog) :
         (DeliveryFailed(alertLog[k]) /\ alertLog[k].run = p.run - 1
            /\ EligibleNow(alertLog[k].to))
           => AttemptedIn(alertLog[k].to, p.run)

\* C11: when the delivery to one subscriber fails, the remaining subscribers of
\* the run are still evaluated and sent to, the failed subscriber is not marked
\* alerted, and its alert is attempted again on the next run in which it still
\* satisfies the eligibility rules
C11_DeliveryFailureRetried ==
  C11_RemainingStillHandled /\ C11_FailedNotMarked /\ C11_FailedRetriedNextRun

\* C12: within one run at most one alert goes to each subscriber, across all
\* territory passes, subscribers without territory included
C12_OneAlertPerSubscriberPerRun ==
  \A k1, k2 \in 1..Len(alertLog) :
    (alertLog[k1].to = alertLog[k2].to /\ alertLog[k1].run = alertLog[k2].run) => k1 = k2

\* a subscriber without territory was alerted in the Columbia pass and the
\* CenterPoint pass, which has a best offer, has gone past it
C12_Witness ==
  /\ p.pc = "alerts" /\ p.tIdx = 3 /\ p.sIdx = 3
  /\ subscribers[2].territory = "NULL"
  /\ AttemptedIn(2, p.run)

C14_DryRunPersistsNothing ==
  p.DRY_RUN =>
    /\ rate_snapshots = pre.stores.rate_snapshots
    /\ supplier_offers = pre.stores.supplier_offers
    /\ rate_events = pre.stores.rate_events
    /\ baselineFile = pre.stores.baselineFile
    /\ subscribers = pre.stores.subscribers
    /\ \A k \in 1..Len(alertLog) : alertLog[k].run = p.run => ~alertLog[k].delivered

LacksRequiredField(page, s) ==
  s.name = Null \/ s.price = Null \/ s.rateType = "unknown" \/ page.territoryId = Null

\* a page that parsed structurally but returned garbage
GarbagePage(page) ==
  /\ Len(page.suppliers) >= 1
  /\ \A j \in 1..Len(page.suppliers) : LacksRequiredField(page, page.suppliers[j])

\* C16: the gate rejects a batch that has a page with at least one offer whose
\* offers all lack a required field, whatever the total offer count
C16_GarbagePageRejected ==
  Accepted => \A i \in 1..Len(CurrBatch) : ~GarbagePage(CurrBatch[i])

\* the successful runs of the trailing 7 days in the ledger as the run found it
WindowSuccess ==
  { k \in 1..Len(pre.ledger) :
      pre.ledger[k].status = "success" /\ pre.ledger[k].started_at > day - MedianWindow }

\* the gate has decided and the process has not ended its day
Decided == (Accepted \/ Rejected) /\ p.pc # "idle"

\* C17: without a successful run in the trailing 7 days the gate accepts a batch
\* if and only if it has at least 30 offers; a median, when there is one, is the
\* median (kept doubled) of the offer counts of the successful runs only
C17_FallbackFloorWithoutSuccess ==
  Decided =>
    /\ WindowSuccess = {}
         => (p.median = Null /\ (Accepted <=> p.totalOffers >= FallbackFloor))
    /\ p.median # Null
         => /\ \E k1, k2 \in WindowSuccess :
                 pre.ledger[k1].row_count + pre.ledger[k2].row_count = p.median
            /\ 2 * Cardinality({ k \in WindowSuccess : 2 * pre.ledger[k].row_count <= p.median })
                 >= Cardinality(WindowSuccess)
            /\ 2 * Cardinality({ k \in WindowSuccess : 2 * pre.ledger[k].row_count >= p.median })
                 >= Cardinality(WindowSuccess)

\* a batch of fewer than 30 offers is rejected by the fallback floor although the
\* ledger holds a recent run of status invalid with a small offer count
C17_Witness ==
  /\ Decided /\ Rejected /\ WindowSuccess = {} /\ p.totalOffers < FallbackFloor
  /\ \E k \in 1..Len(pre.ledger) :
       /\ pre.ledger[k].status = "invalid" /\ pre.ledger[k].started_at > day - MedianWindow
       /\ 10 * p.totalOffers >= 3 * pre.ledger[k].row_count

\* two offers are the same offer across batches: by the stable offer id when
\* both carry one, otherwise by (supplier name, term months, rate kind)
Matched(a, b) ==
  IF a.offerId # Null /\ b.offerId # Null THEN a.offerId = b.offerId
  ELSE OfferKey(a) = OfferKey(b)

\* C18: every supplier rate change recorded by a run compares an offer of the
\* current page with the offer of the prior page that has the same stable id or,
\* without ids, the same (supplier name, term months, rate kind)
C18_MatchedByIdOrTriple ==
  Compared =>
    \A k \in 1..Len(rate_events) :
      (/\ rate_events[k].scrape_run_id = p.runId
       /\ rate_events[k].event_type = "rate_change"
       /\ rate_events[k].supplier_name < 1000)
      => \E ij \in PagePairs :
           LET prev == PrevBatch[ij[1]].suppliers
               curr == CurrBatch[ij[2]].suppliers
           IN \E a \in 1..Len(prev), b \in 1..Len(curr) :
                /\ Matched(prev[a], curr[b])
                /\ curr[b].name = rate_events[k].supplier_name
                /\ OrNull(prev[a].price) = rate_events[k].old_rate
                /\ OrNull(curr[b].price) = rate_events[k].new_rate

\* the candidates for the best offer of a territory: today's stored residential
\* gas offers with rate kind fixed, not introductory, not bundle-required and
\* price > 0.1
Candidate(r, territoryId, today) ==
  /\ r.territory_id = territoryId /\ r.category = "NaturalGas" /\ r.rate_code = 1
  /\ r.scraped_date = today
  /\ r.rate_type = "fixed" /\ r.is_intro = FALSE /\ r.is_bundle_required = FALSE
  /\ r.price # Null /\ r.price > PriceFloor

\* C19: the best offer of a territory pass is the cheapest of the candidates,
\* offers without description text included
C19_BestOfferIsCheapestCandidate ==
  (p.pc = "alerts" /\ p.sIdx >= 1) =>
    LET rows   == SupplierOfferRows(supplier_offers)
        prices == { rows[k].price :
                      k \in { j \in 1..Len(rows) :
                                Candidate(rows[j], TERRITORY_CONFIG[p.tIdx].id, day) } }
    IN p.bestPrice \in prices /\ \A x \in prices : p.bestPrice <= x

\* C20: no rate event of a run has a prior or a current price that is missing,
\* 0 or negative, and a best offer has a price above 0
C20_NonPositivePriceExcluded ==
  /\ Compared =>
       \A k \in 1..Len(rate_events) :
         (/\ rate_events[k].scrape_run_id = p.runId
          /\ rate_events[k].event_type = "rate_change"
          /\ rate_events[k].supplier_name < 1000)
         => /\ rate_events[k].old_rate # Null /\ rate_events[k].old_rate > 0
            /\ rate_events[k].new_rate # Null /\ rate_events[k].new_rate > 0
  /\ (p.pc = "alerts" /\ p.sIdx >= 1) => p.bestPrice > 0

\* C21: rate events are written only by a run whose batch passed the gate and
\* carry the ledger id of that run; no rate event belongs to a run finalized as
\* invalid or failed; the rows already in rate_events are never changed or removed
C21_EventsOnlyForAcceptedRuns ==
  /\ [](\A k \in 1..Len(rate_events) :
          /\ rate_events[k].scrape_run_id \in 1..Len(scrape_runs)
          /\ scrape_runs[rate_events[k].scrape_run_id].status \notin {"invalid", "failed"})
  /\ [][ /\ Len(rate_events') >= Len(rate_events)
         /\ SubSeq(rate_events', 1, Len(rate_events)) = rate_events
         /\ rate_events' # rate_events
              => /\ Accepted /\ HasRecord
                 /\ \A k \in (Len(rate_events) + 1)..Len(rate_events') :
                      rate_events'[k].scrape_run_id = p.runId ]_vars

\* the table holds the events of two runs, the later run has ended
C21_Witness ==
  /\ p.pc = "done"
  /\ \E k1, k2 \in 1..Len(rate_events) :
       /\ k1 < k2 /\ rate_events[k1].scrape_run_id < rate_events[k2].scrape_run_id
       /\ rate_events[k2].scrape_run_id = p.runId

\* the changes the current run detected that pass the significance filter,
\* before sorting and capping; none on a first run without baseline file
DetectedNow ==
  IF p.previous = << >> THEN << >>
  ELSE FilterSignificant(detectChanges(PrevBatch, CurrBatch))

\* the alert stage and the baseline update are due
AlertStageDue == p.FORCE_ALERT \/ DetectedNow # << >>

\* the alerts the current run handed to sendEmail
AlertsOfRun == { k \in 1..Len(alertLog) : alertLog[k].run = p.run }

\* the step of main after the diff: to the alert stage with the baseline file
\* rewritten, or out of the process with exit code 0 and nothing written
C28_DecideStep ==
  [][ (p.pc = "decide" /\ p' # p) =>
        LET detected == p.changes     \* what main holds after the filter and the cap
            due      == p.FORCE_ALERT \/ detected # << >>
        IN /\ due
                => /\ p'.pc = "alerts" /\ baselineFile' = << p.current >>
                   /\ rate_events' = rate_events
                   /\ detected = << >>
                        => /\ Len(p'.changes) = 1 /\ p'.changes[1].type = "default_rate"
                           /\ p'.changes[1].supplier = Null
           /\ ~due
                => /\ p'.pc = "done" /\ p'.exitCode = 0
                   /\ baselineFile' = baselineFile /\ alertLog' = alertLog ]_vars

\* alerts are sent in the alert stage only, and rate events are written by the
\* diff only, when it detected something
C28_AlertStageOnly ==
  /\ [][ alertLog' # alertLog
          => (p.pc = "alerts" /\ p'.run = p.run /\ Accepted /\ AlertStageDue) ]_vars
  /\ [][ rate_events' # rate_events
          => /\ p.pc = "diff" /\ baselineFile # << >>
             /\ FilterSignificant(detectChanges(BatchOf(baselineFile[1]), CurrBatch)) # << >> ]_vars

EventsNow == { k \in 1..Len(rate_events) : rate_events[k].scrape_run_id = p.runId }

C22_FinalizedOnce ==
  /\ [](\A i \in 1..Len(scrape_runs) :
          scrape_runs[i].finished <=> scrape_runs[i].status \in {"success", "invalid", "failed"})
  /\ [][ \A i \in 1..Len(scrape_runs) :
           scrape_runs[i].finished => scrape_runs'[i] = scrape_runs[i] ]_vars

\* C22: every run has its Run Record from its start on (as long as no
\* collaborator has failed), the record of a run that has ended is success,
\* invalid or failed and never running, whatever has failed, and a finalized
\* record never changes again
C22_RecordFinalizedAtEnd ==
  /\ []((p.run > 0 /\ p.pc # "idle" /\ faults = 0) => HasRecord)
  /\ []((p.pc = "done" /\ HasRecord) => RunRecord.status \in {"success", "invalid", "failed"})
  /\ C22_FinalizedOnce

\* the offers on the pages of the portal whose fetch did not fail
OffersOfFetchedPages(k) ==
  SumSeq([i \in 1..Len(PagesServed(k)) |->
            IF i \in PagesFailed(k) THEN 0 ELSE Len(PagesServed(k)[i].suppliers)])

\* C24: when the fetch of a rate page fails the page contributes 0 offers to
\* the batch total, the other pages are kept, and the run goes on to the gate:
\* it is never marked failed, and it is accepted or rejected by its count alone
C24_PageFailureSkipsPage ==
  (p.current # "none" /\ PagesFailed(p.current) # {}) =>
    /\ p.totalOffers = OffersOfFetchedPages(p.current)
    /\ Len(CurrBatch) = Len(PagesServed(p.current)) - Cardinality(PagesFailed(p.current))
    /\ \A i \in 1..Len(PagesServed(p.current)) :
         i \notin PagesFailed(p.current)
           => \E j \in 1..Len(CurrBatch) : CurrBatch[j] = PagesServed(p.current)[i]
    /\ p.outcome # "failed"
    /\ HasRecord => RunRecord.status # "failed"
    /\ (Accepted \/ Rejected)
         => (Accepted <=> p.totalOffers >= (IF p.median = Null THEN FallbackFloor
                                           ELSE (3 * p.median) \div 20))

\* the Enbridge page failed, the Columbia page carried the run through the
\* gate and into the stores
C24_Witness ==
  /\ p.current = "twolost" /\ Accepted /\ p.pc = "done" /\ p.totalOffers > 0
  /\ HasRecord /\ RunRecord.status = "success"

\* the factor between the unit a territory's prices are quoted in and the
\* canonical unit (ccf)
UnitFactor(territoryId) == IF territoryId = McfTerritory THEN CcfPerMcf ELSE 1

\* the eligibility rules for subscriber s with the best price of the
\* territory rescaled to the canonical unit of the baseline
EligibleCanonical(s) ==
  LET sub  == subscribers[s]
      id   == TERRITORY_CONFIG[PassOf(sub)].id
      best == BestPrice(SupplierOfferRows(supplier_offers), id, day)
      base == Baseline(sub, ScoRate(CurrBatch, id, 1))
      thr  == IF Truthy(sub.min_savings_pct) THEN sub.min_savings_pct ELSE DefaultMinSavings
  IN /\ sub.confirmed
     /\ best # Null
     /\ Truthy(base) /\ base > 0
     /\ 100 * (base * UnitFactor(id) - best) >= thr * base * UnitFactor(id)
     /\ \/ sub.last_alerted_at = Null
        \/ /\ day - sub.last_alerted_at >= CooldownDays
           /\ 100 * Abs(best - sub.last_alerted_rate) > RateDiffPct * sub.last_alerted_rate

\* C25: the savings are computed from a baseline and a best price in the same
\* unit (prices quoted per Mcf are divided by 10 first): at the end of the
\* alert stage every subscriber whose savings in the canonical unit reach the
\* threshold, and who is not throttled, has been handed an alert
C25_SavingsInOneUnit ==
  p.pc = "wrapup" => \A s \in 1..Len(subscribers) : EligibleCanonical(s) => AttemptedIn(s, p.run)


\* the admitted calls of the ip in the window that ends at t: (t - window, t]
AdmittedWithin(adm, ip, t) ==
  Cardinality({ k \in 1..Len(adm[ip]) : adm[ip][k] <= t /\ t - adm[ip][k] < SignupWindow })

\* C30: isRateLimited admits at most 5 calls of an ip within any window of one
\* hour; a call is rejected iff 5 admitted calls of its ip lie within the hour
\* before it; a rejected call leaves the log as it was; a call never changes
\* the log of another ip
C30_AtMostFivePerHourPerIp ==
  [][ ncalls' = ncalls + 1 =>
        LET c == lastCall'[1]
        IN /\ c.limited <=> AdmittedWithin(admitted, c.ip, c.t) = MaxSignups
           /\ c.limited => ipSignupLog' = ipSignupLog
           /\ \A ip \in IPs \ {c.ip} : ipSignupLog'[ip] = ipSignupLog[ip]
           /\ \A ip \in IPs, t \in 0..now' : AdmittedWithin(admitted', ip, t) <= MaxSignups ]_vars

\* an ip was rejected after five admitted calls and is admitted again, for the
\* sixth time, once they are older than the window
C30_Witness ==
  /\ lastCall # << >> /\ lastCall[1].ip = 1 /\ ~lastCall[1].limited
  /\ Len(admitted[1]) = MaxSignups + 1
  /\ ncalls > Len(admitted[1]) + Len(admitted[2])


\* the subscriber of row i has used a confirmation link
UsedLink(log, i) == \E k \in 1..Len(log) : i \in log[k].rows

\* the subscriber of row i was confirmed before the first request
ConfirmedAtStart(i) == i <= Len(InitSubscribers) /\ InitSubscribers[i].confirmed

\* C26: an alert goes only to a subscriber who is confirmed when it is sent; a
\* subscriber who signed up and has not used the confirmation link is not
\* confirmed and has no alert; a token confirms at most once (one row, one
\* time); no request, a repeated signup included, takes the confirmation away
C26_AlertsOnlyToConfirmed ==
  [][ /\ alertLog' # alertLog => subscribers[alertLog'[Len(alertLog')].to].confirmed
      /\ \A i \in 1..Len(subscribers) :
            /\ subscribers[i].confirmed
                 => /\ subscribers'[i].confirmed
                    /\ subscribers'[i].confirm_token = subscribers[i].confirm_token
      /\ \A i \in 1..Len(subscribers') :
            /\ subscribers'[i].confirmed => (ConfirmedAtStart(i) \/ UsedLink(confirmations', i))
      /\ \A k \in 1..Len(alertLog') :
            ConfirmedAtStart(alertLog'[k].to) \/ UsedLink(confirmations', alertLog'[k].to)
      /\ \A j, k \in 1..Len(confirmations') :
            /\ Cardinality(confirmations'[k].rows) = 1
            /\ j # k => confirmations'[j].token # confirmations'[k].token ]_vars

\* a subscriber who signed up and used the link has been alerted, has signed
\* up again and is still confirmed; a link presented a second time, or one
\* replaced by a later signup, confirmed nothing
C26_Witness ==
  /\ Len(subscribers) > Len(InitSubscribers)
  /\ subscribers[Len(subscribers)].confirmed
  /\ \E k \in 1..Len(alertLog) : alertLog[k].to = Len(subscribers) /\ alertLog[k].delivered
  /\ lastCall # << >> /\ lastCall[1].email = subscribers[Len(subscribers)].email
  /\ p.pc = "done"
  /\ nconfirms > Len(confirmations)


\* a background function of the cron handler, or main, is between its start and its end
CronActive(h) == cron[h].pc \notin {"idle", "done"}
MainActive == p.pc \notin {"idle", "done"}
RunsActive ==
  Cardinality({ h \in 1..MaxCron : CronActive(h) }) + (IF MainActive THEN 1 ELSE 0)

\* C23: at most one pipeline run is active at any time, so that two runs never
\* interleave their reads and writes of the baseline file and the latest file
C23_OneRunAtATime == RunsActive <= 1

\* the step writes the latest file, the baseline file, rate_snapshots or supplier_offers
PersistsBatch ==
  \/ latestFile' # latestFile \/ baselineFile' # baselineFile
  \/ rate_snapshots' # rate_snapshots \/ supplier_offers' # supplier_offers

\* main persists a batch only after its gate accepted it
C27_MainGatesBeforePersisting == [][ (PersistsBatch /\ p' # p) => Accepted ]_vars

\* C27: every entry point persists a batch only after the batch's total offer
\* count passed the gate: main after its gate accepted, the cron handler only a
\* batch whose count is at least 30% of the 7-day median (30 without median)
C27_GateBeforePersisting ==
  [][ PersistsBatch =>
        IF p' # p THEN Accepted
        ELSE \E h \in 1..MaxCron :
               /\ cron'[h] # cron[h]
               /\ GateAccepts(TotalOffers(BatchOf(cron'[h].current)),
                              getSevenDayMedian(scrape_runs, day)) ]_vars

=============================================================================
